---- MODULE Spec2Model ----
(***************************************************************************)
(* Model of the POM dependency migrator (source/migrators/pom.py), its     *)
(* file writer (source/migrators/base.py) and the directory loop of the    *)
(* migration engine (source/migration_engine.py).                          *)
(*                                                                         *)
(* A text is a sequence of tokens (short strings); the empty sequence is   *)
(* Python's None, which is what ElementTree gives for an element without   *)
(* text.  An element is a record [p, text]: p says whether the element is  *)
(* present under its parent.                                               *)
(***************************************************************************)
EXTENDS Naturals, Sequences, FiniteSets, TLC

VARIABLES
    fs,          \* file contents of the directory, one per pom.xml
    baks,        \* the sibling .bak file of each pom.xml
    rules,       \* config.eap7_to_eap8_dependencies
    dry_run,     \* config.dry_run
    backup,      \* config.backup
    pass,        \* number of the current run of the tool over the directory
    idx,         \* position of migrate_directory's loop in applicable_files
    pc,          \* position of migrate_file in the current file
    tree,        \* the parsed document being mutated in place
    orig,        \* the file's content when migrate_file started (history)
    origBak,     \* the .bak file when migrate_file started (history)
    replacement_details,  \* the change records of the current file
    phaseLens,   \* length of replacement_details after each phase (history)
    active_boms, \* result of _extract_active_boms
    content,     \* the serialized document handed to _write_file
    result,      \* the MigrationResult being built
    events,      \* what the current migrate_file call has done so far (history)
    results,     \* migrate_directory's results list of the current pass
    history      \* the finished passes: config and results (history)

vars == <<fs, baks, rules, dry_run, backup, pass, idx, pc, tree, orig, origBak,
          replacement_details, phaseLens, active_boms, content, result,
          events, results, history>>

-----------------------------------------------------------------------------
(* Bounds *)

MaxItems == 2      \* dependencies + properties + plugins of a generated document
MaxFiles == 2      \* pom.xml files of a generated directory
MaxPasses == 2     \* runs of the tool over the same directory

-----------------------------------------------------------------------------
(* Texts *)

None == <<>>

Elem(t) == [p |-> TRUE, text |-> t]
NoElem == [p |-> FALSE, text |-> None]

\* A value that is not a str: a JSON number loaded by json.load carries this
\* mark as its first token.
IntMark == "<int>"
IsInt(t) == t /= None /\ Head(t) = IntMark

\* f"{x}": None formats as 'None', a number as its digits.
Fmt(t) == IF t = None THEN <<"None">> ELSE IF IsInt(t) THEN Tail(t) ELSE t

StartsWith(t, pre) ==
    Len(t) >= Len(pre) /\ SubSeq(t, 1, Len(pre)) = pre

EndsWith(t, suf) ==
    Len(t) >= Len(suf) /\ SubSeq(t, Len(t) - Len(suf) + 1, Len(t)) = suf

\* pat in t
Contains(t, pat) ==
    \E i \in 1..(Len(t) + 1) : i + Len(pat) - 1 <= Len(t) /\ SubSeq(t, i, i + Len(pat) - 1) = pat

\* t.replace(old, new): every occurrence, left to right
RECURSIVE Replace(_, _, _)
Replace(t, old, new) ==
    IF t = <<>> THEN <<>>
    ELSE IF StartsWith(t, old) THEN new \o Replace(SubSeq(t, Len(old) + 1, Len(t)), old, new)
    ELSE <<Head(t)>> \o Replace(Tail(t), old, new)

\* t.lower()
LowerTok(c) == IF c = "EAP" THEN "eap" ELSE IF c = "Version" THEN "version" ELSE c
Lower(t) == [i \in 1..Len(t) |-> LowerTok(t[i])]

\* t.split(sep) for a one-token separator
RECURSIVE Split(_, _)
Split(t, sep) ==
    IF \A i \in 1..Len(t) : t[i] /= sep THEN <<t>>
    ELSE LET i == CHOOSE k \in 1..Len(t) : t[k] = sep /\ \A j \in 1..(k - 1) : t[j] /= sep
         IN <<SubSeq(t, 1, i - 1)>> \o Split(SubSeq(t, i + 1, Len(t)), sep)

IsPlaceholder_Never(t) == FALSE

\* version.text and version.text.startswith('${') and version.text.endswith('}')
IsPlaceholder(t) == t /= None /\ StartsWith(t, <<"${">>) /\ EndsWith(t, <<"}">>)

\* f"{group_id.text}:{artifact_id.text}"
Key(g, a) == Fmt(g) \o <<":">> \o Fmt(a)

-----------------------------------------------------------------------------
(* Configuration: the rule table and the built-in catalogue *)

Mapping(hasArt, art, hasVer, ver) ==
    [has_new_artifact |-> hasArt, new_artifact |-> art,
     has_new_version |-> hasVer, new_version |-> ver]

K_EapBom == <<"org.jboss.bom", ":", "jboss-", "eap", "-jakartaee8">>
K_EapBomNew == <<"org.jboss.bom", ":", "jboss-", "eap", "-ee">>
K_HibCore == <<"org.hibernate", ":", "hibernate-core">>
K_HibEm == <<"org.hibernate", ":", "hibernate-entitymanager">>
K_HibOrmCore == <<"org.hibernate.orm", ":", "hibernate-core">>
K_AcmeBom == <<"com.acme", ":", "platform-bom">>
K_AcmeLegacy == <<"com.acme", ":", "legacy">>

\* Entries of MigrationConfig's default table
DefaultRules ==
    (K_EapBom :> Mapping(TRUE, K_EapBomNew, TRUE, <<"8.0.0.GA">>)) @@
    (K_HibCore :> Mapping(FALSE, None, TRUE, <<"6.2.0.Final">>)) @@
    (K_HibEm :> Mapping(TRUE, K_HibOrmCore, TRUE, <<"6.2.0.Final">>))

\* A table loaded from a user's config.json, which load_from_file takes as it
\* is: a version written as a JSON number, a new_artifact without its colon.
CustomRules ==
    (K_AcmeBom :> Mapping(FALSE, None, TRUE, <<IntMark, "8">>)) @@
    (K_AcmeLegacy :> Mapping(TRUE, <<"acme-lib">>, FALSE, None)) @@
    DefaultRules

RuleTables == {DefaultRules, CustomRules}

\* Entries of _get_managed_dependencies
managed_dependencies == {K_HibCore, K_HibOrmCore}

-----------------------------------------------------------------------------
(* Documents *)

Dep(g, a, v, s, t) == [groupId |-> g, artifactId |-> a, version |-> v, scope |-> s, type |-> t]

Block(m, es) == [managed |-> m, entries |-> es]

EmptyDoc == [blocks |-> <<>>, props |-> [p |-> FALSE, items |-> <<>>], plugins |-> <<>>]

Malformed == [wf |-> FALSE, doc |-> EmptyDoc]
WellFormed(d) == [wf |-> TRUE, doc |-> d]

\* Append to a function-sequence position
SetAt(s, i, x) == [s EXCEPT ![i] = x]

-----------------------------------------------------------------------------
(* Phase 1: _update_dependency_management *)

IsBomEntry_Either(dep) ==
    \/ dep.scope.p /\ dep.scope.text = <<"import">>
    \/ dep.type.p /\ dep.type.text = <<"pom">>

\* (scope=import, type=pom)
IsBomEntry(dep) ==
    /\ dep.scope.p /\ dep.scope.text = <<"import">>
    /\ dep.type.p /\ dep.type.text = <<"pom">>

\* root.find('.//maven:dependencyManagement'): the first one in document order, 0 if none
FirstDepMgmt(tr) ==
    IF \E i \in 1..Len(tr.blocks) : tr.blocks[i].managed
    THEN CHOOSE i \in 1..Len(tr.blocks) :
            tr.blocks[i].managed /\ \A j \in 1..(i - 1) : ~tr.blocks[j].managed
    ELSE 0

\* new_group, new_artifact = mapping['new_artifact'].split(':')
SplitRaises(mapping) == mapping.has_new_artifact /\ Len(Split(mapping.new_artifact, ":")) /= 2

Rewritten_GroupOnly(dep, mapping) ==
    IF mapping.has_new_artifact
    THEN [dep EXCEPT !.groupId.text = Split(mapping.new_artifact, ":")[1]]
    ELSE dep

\* group and artifact rewritten when the mapping has a new_artifact
Rewritten(dep, mapping) ==
    IF mapping.has_new_artifact
    THEN LET parts == Split(mapping.new_artifact, ":")
         IN [dep EXCEPT !.groupId.text = parts[1], !.artifactId.text = parts[2]]
    ELSE dep

NewOrOld(mapping, old_key) == IF mapping.has_new_artifact THEN mapping.new_artifact ELSE old_key

\* One iteration of the loop of lines 177-233: the entry afterwards, the records
\* appended, and the exception raised ("" for none).
UpdateManagedEntry(dep, rls) ==
    LET old_key == Key(dep.groupId.text, dep.artifactId.text)
        skip == [dep |-> dep, changes |-> <<>>, exc |-> ""]
    IN IF ~dep.groupId.p \/ ~dep.artifactId.p THEN skip
       ELSE IF old_key \notin DOMAIN rls THEN skip
       ELSE LET mapping == rls[old_key]
                d1 == Rewritten(dep, mapping)
            IN IF SplitRaises(mapping) THEN [dep |-> dep, changes |-> <<>>, exc |-> "ValueError"]
               ELSE IF IsBomEntry(dep) /\ mapping.has_new_version /\ dep.version.p
               THEN IF ~IsPlaceholder(dep.version.text)
                    THEN [dep |-> [d1 EXCEPT !.version.text = mapping.new_version],
                          changes |-> << [type |-> "bom_update",
                                          old |-> old_key \o <<":">> \o Fmt(dep.version.text),
                                          new |-> NewOrOld(mapping, old_key) \o <<":">> \o Fmt(mapping.new_version)] >>,
                          exc |-> ""]
                    ELSE [dep |-> d1,
                          changes |-> << [type |-> "bom_update", old |-> old_key,
                                          new |-> NewOrOld(mapping, old_key),
                                          note |-> "Version managed by property"] >>,
                          exc |-> ""]
               ELSE [dep |-> d1,
                     changes |-> << [type |-> "dependency_management_update", old |-> old_key,
                                     new |-> NewOrOld(mapping, old_key),
                                     version_kept |-> IF dep.version.p THEN dep.version.text ELSE <<"none">>] >>,
                     exc |-> ""]

\* A loop over entries that stops at the first exception.  step(dep) gives
\* [dep, changes, exc]; the result is [entries, changes, exc].
RECURSIVE LoopEntries(_, _, _, _)
LoopEntries(step(_), es, i, acc) ==
    IF i > Len(es) \/ acc.exc /= "" THEN acc
    ELSE LET r == step(es[i])
         IN LoopEntries(step, es, i + 1,
                        [entries |-> SetAt(acc.entries, i, r.dep),
                         changes |-> acc.changes \o r.changes,
                         exc |-> r.exc])

_update_dependency_management(tr, rls) ==
    LET m == FirstDepMgmt(tr)
    IN IF m = 0 THEN [tree |-> tr, changes |-> <<>>, exc |-> ""]
       ELSE LET step(dep) == UpdateManagedEntry(dep, rls)
                r == LoopEntries(step, tr.blocks[m].entries, 1,
                                 [entries |-> tr.blocks[m].entries, changes |-> <<>>, exc |-> ""])
            IN [tree |-> [tr EXCEPT !.blocks[m].entries = r.entries],
                changes |-> r.changes, exc |-> r.exc]

-----------------------------------------------------------------------------
(* Phase 2: _extract_active_boms *)

BOMInfo(g, a, v) == [group_id |-> g, artifact_id |-> a, version |-> v, key |-> Key(g, a)]

\* lines 251-264 for one entry: the BOMs it contributes
BomsOfEntry(dep) ==
    IF IsBomEntry(dep) /\ dep.groupId.p /\ dep.artifactId.p
    THEN << BOMInfo(dep.groupId.text, dep.artifactId.text,
                    IF dep.version.p THEN dep.version.text ELSE None) >>
    ELSE <<>>

RECURSIVE BomsOfEntries(_)
BomsOfEntries(es) ==
    IF es = <<>> THEN <<>> ELSE BomsOfEntry(Head(es)) \o BomsOfEntries(Tail(es))

_extract_active_boms_BeforeA(tr) ==
    LET m == FirstDepMgmt(orig.doc)
    IN IF m = 0 THEN <<>> ELSE BomsOfEntries(orig.doc.blocks[m].entries)

_extract_active_boms(tr) ==
    LET m == FirstDepMgmt(tr)
    IN IF m = 0 THEN <<>> ELSE BomsOfEntries(tr.blocks[m].entries)

-----------------------------------------------------------------------------
(* Phases 3 and 4: _migrate_dependencies, _cleanup_managed_versions *)

\* parent = dep.find('..'): ElementTree resolves '..' against the element find()
\* is called on, whose own parent it cannot select, so the result is None.
ParentOf(blk) == "None"

\* The while/else of lines 277-282 and 328-333: TRUE when the loop leaves by
\* break, which is when the entry is to be skipped as a managed one.
InsideDependencyManagement(blk) ==
    ParentOf(blk) /= "None" /\ blk.managed

\* One iteration of lines 284-306
MigrateEntry(dep, rls) ==
    LET old_key == Key(dep.groupId.text, dep.artifactId.text)
        skip == [dep |-> dep, changes |-> <<>>, exc |-> ""]
    IN IF ~dep.groupId.p \/ ~dep.artifactId.p THEN skip
       ELSE IF old_key \notin DOMAIN rls THEN skip
       ELSE LET mapping == rls[old_key]
            IN IF ~mapping.has_new_artifact THEN skip
               ELSE IF SplitRaises(mapping) THEN [dep |-> dep, changes |-> <<>>, exc |-> "ValueError"]
               ELSE [dep |-> Rewritten(dep, mapping),
                     changes |-> << [type |-> "dependency_migration", old |-> old_key,
                                     new |-> mapping.new_artifact] >>,
                     exc |-> ""]

\* The loop over root.findall('.//maven:dependencies/maven:dependency'): every
\* block in document order, stopping at the first exception.
RECURSIVE LoopBlocks(_, _, _, _)
LoopBlocks(step(_), tr, b, acc) ==
    IF b > Len(tr.blocks) \/ acc.exc /= "" THEN acc
    ELSE IF InsideDependencyManagement(tr.blocks[b]) THEN LoopBlocks(step, tr, b + 1, acc)
    ELSE LET es == tr.blocks[b].entries
             r == LoopEntries(step, es, 1, [entries |-> es, changes |-> <<>>, exc |-> ""])
         IN LoopBlocks(step, tr, b + 1,
                       [tree |-> [acc.tree EXCEPT !.blocks[b].entries = r.entries],
                        changes |-> acc.changes \o r.changes,
                        exc |-> r.exc])

_migrate_dependencies(tr, rls) ==
    LET step(dep) == MigrateEntry(dep, rls)
    IN LoopBlocks(step, tr, 1, [tree |-> tr, changes |-> <<>>, exc |-> ""])

IsEapBom_AnyBom(bom) == TRUE

\* 'eap' in bom.artifact_id.lower()
IsEapBom(bom) == Contains(Lower(bom.artifact_id), <<"eap">>)

EapScan_NeverEap(boms) == [has_eap_bom |-> FALSE, exc |-> ""]

EapScan_AlwaysEap(boms) == [has_eap_bom |-> TRUE, exc |-> ""]

\* any(...) of lines 315-318 walks the BOMs in order and stops at the first
\* match; a BOM without artifact text met before that raises AttributeError.
EapScan(boms) ==
    LET hits == {i \in 1..Len(boms) : boms[i].artifact_id /= None /\ IsEapBom(boms[i])}
        nones == {i \in 1..Len(boms) : boms[i].artifact_id = None}
    IN [has_eap_bom |-> hits /= {},
        exc |-> IF \E n \in nones : \A h \in hits : n < h THEN "AttributeError" ELSE ""]

\* One iteration of lines 334-353
CleanupEntry(dep) ==
    LET dep_key == Key(dep.groupId.text, dep.artifactId.text)
        skip == [dep |-> dep, changes |-> <<>>, exc |-> ""]
    IN IF ~(dep.groupId.p /\ dep.artifactId.p /\ dep.version.p) THEN skip
       ELSE IF dep_key \notin managed_dependencies THEN skip
       ELSE IF IsInt(dep.version.text) THEN [dep |-> dep, changes |-> <<>>, exc |-> "AttributeError"]
       ELSE IF IsPlaceholder(dep.version.text) THEN skip
       ELSE [dep |-> [dep EXCEPT !.version = NoElem],
             changes |-> << [type |-> "version_removed", dependency |-> dep_key,
                             old_version |-> dep.version.text, reason |-> "Managed by BOM"] >>,
             exc |-> ""]

_cleanup_managed_versions(tr, boms) ==
    LET scan == EapScan(boms)
        step(dep) == CleanupEntry(dep)
    IN IF scan.exc /= "" THEN [tree |-> tr, changes |-> <<>>, exc |-> scan.exc]
       ELSE IF ~scan.has_eap_bom THEN [tree |-> tr, changes |-> <<>>, exc |-> ""]
       ELSE LoopBlocks(step, tr, 1, [tree |-> tr, changes |-> <<>>, exc |-> ""])

-----------------------------------------------------------------------------
(* Phase 5: _update_properties *)

Prop(name, text) == [name |-> name, text |-> text]

JavaxRewritten_FirstOnly(t) ==
    LET at == {k \in 1..Len(t) : k + 1 <= Len(t) /\ t[k] = "javax" /\ t[k + 1] = "."}
    IN IF at = {} THEN t
       ELSE [t EXCEPT ![CHOOSE k \in at : \A j \in at : k <= j] = "jakarta"]

\* lines 371-372
JavaxRewritten(t) ==
    IF Contains(t, <<"javax">>) THEN Replace(t, <<"javax", ".">>, <<"jakarta", ".">>) ELSE t

VersionRewritten_ExactEap(prop_name, t) ==
    LET n == Lower(prop_name)
    IN IF ~Contains(n, <<"version">>) THEN t
       ELSE IF Contains(n, <<"eap">>) /\ t = <<"7.4">> THEN <<"8.0.0.GA">>
       ELSE IF Contains(n, <<"hibernate">>) /\ StartsWith(t, <<"5.">>) THEN <<"6.2.0.Final">>
       ELSE IF Contains(n, <<"resteasy">>) /\ (StartsWith(t, <<"3.">>) \/ StartsWith(t, <<"4.">>))
            THEN <<"6.2.0.Final">>
       ELSE t

\* lines 375-381
VersionRewritten(prop_name, t) ==
    LET n == Lower(prop_name)
    IN IF ~Contains(n, <<"version">>) THEN t
       ELSE IF Contains(n, <<"eap">>) /\ Contains(t, <<"7.4">>) THEN <<"8.0.0.GA">>
       ELSE IF Contains(n, <<"hibernate">>) /\ StartsWith(t, <<"5.">>) THEN <<"6.2.0.Final">>
       ELSE IF Contains(n, <<"resteasy">>) /\ (StartsWith(t, <<"3.">>) \/ StartsWith(t, <<"4.">>))
            THEN <<"6.2.0.Final">>
       ELSE t

NewPropText(prop) ==
    IF prop.text = None THEN prop.text
    ELSE VersionRewritten(prop.name, JavaxRewritten(prop.text))

RECURSIVE PropChanges(_)
PropChanges(items) ==
    IF items = <<>> THEN <<>>
    ELSE LET prop == Head(items)
         IN (IF NewPropText(prop) /= prop.text
             THEN << [type |-> "property_update", name |-> prop.name,
                      old |-> prop.text, new |-> NewPropText(prop)] >>
             ELSE <<>>) \o PropChanges(Tail(items))

_update_properties(tr) ==
    IF ~tr.props.p THEN [tree |-> tr, changes |-> <<>>, exc |-> ""]
    ELSE [tree |-> [tr EXCEPT !.props.items =
                        [i \in 1..Len(tr.props.items) |->
                            [tr.props.items[i] EXCEPT !.text = NewPropText(tr.props.items[i])]]],
          changes |-> PropChanges(tr.props.items),
          exc |-> ""]

-----------------------------------------------------------------------------
(* Phase 6: _update_plugins *)

CompilerPlugin == <<"maven-compiler-plugin">>

\* release: the release elements of the configuration; qualified says whether
\* the element's tag carries the Maven namespace.
Plugin(art, hasConfig, source, target, release) ==
    [artifactId |-> art, hasConfig |-> hasConfig, source |-> source, target |-> target,
     release |-> release]

LegacyLevels_Only8 == {<<"8">>}

LegacyLevels == {<<"1.8">>, <<"8">>}

PluginMatches_Both(pl) ==
    /\ pl.artifactId = CompilerPlugin
    /\ pl.hasConfig
    /\ pl.source.p /\ pl.target.p
    /\ (pl.source.text \in LegacyLevels /\ pl.target.text \in LegacyLevels)

\* lines 403-409
PluginMatches(pl) ==
    /\ pl.artifactId = CompilerPlugin
    /\ pl.hasConfig
    /\ pl.source.p /\ pl.target.p
    /\ (pl.source.text \in LegacyLevels \/ pl.target.text \in LegacyLevels)

\* lines 411-415: ET.SubElement(config, 'release') makes a tag without namespace
PluginUpdated(pl) ==
    IF PluginMatches(pl)
    THEN [pl EXCEPT !.source = NoElem, !.target = NoElem,
                    !.release = Append(pl.release, [text |-> <<"11">>, qualified |-> FALSE])]
    ELSE pl

RECURSIVE PluginChanges(_)
PluginChanges(pls) ==
    IF pls = <<>> THEN <<>>
    ELSE (IF PluginMatches(Head(pls))
          THEN << [type |-> "plugin_update", plugin |-> "maven-compiler-plugin",
                   change |-> "Updated to use release=11"] >>
          ELSE <<>>) \o PluginChanges(Tail(pls))

_update_plugins(tr) ==
    [tree |-> [tr EXCEPT !.plugins = [i \in 1..Len(tr.plugins) |-> PluginUpdated(tr.plugins[i])]],
     changes |-> PluginChanges(tr.plugins),
     exc |-> ""]

-----------------------------------------------------------------------------
(* Serialization and parsing *)

\* ET.tostring raises TypeError on a text that is not a str
HasNonStrText(tr) ==
    \E b \in 1..Len(tr.blocks) : \E i \in 1..Len(tr.blocks[b].entries) :
        IsInt(tr.blocks[b].entries[i].version.text)

\* What ET.parse gives back for the text ET.tostring wrote: a tag written
\* without prefix falls under the root's default namespace.
Reparsed(tr) ==
    [tr EXCEPT !.plugins =
        [i \in 1..Len(tr.plugins) |->
            [tr.plugins[i] EXCEPT !.release =
                [j \in 1..Len(tr.plugins[i].release) |->
                    [tr.plugins[i].release[j] EXCEPT !.qualified = TRUE]]]]]

\* ET.tostring(root, encoding='unicode', xml_declaration=True) after _indent_xml,
\* which changes only the whitespace between elements
Serialized(tr) == WellFormed(Reparsed(tr))

-----------------------------------------------------------------------------
(* migrate_file, _write_file and migrate_directory as a state machine *)

\* MigrationResult(file_path=file_path, modified=False, replacements=0)
NewResult(i) ==
    [file_path |-> i, modified |-> FALSE, replacements |-> 0, errors |-> <<>>,
     has_details |-> FALSE, details |-> <<>>]

\* The handlers of lines 99-104: the error is appended, nothing else is touched
OnException(res, msg) == [res EXCEPT !.errors = Append(@, msg)]

AfterPhase_GoesOn(exc, next) == next

AfterPhase_Raises(exc, next) == IF exc /= "" THEN "raised" ELSE next

\* Where migrate_file goes after a phase: into the except clause, which leads
\* to the return, or on to the next statement
AfterPhase(exc, next) == IF exc /= "" THEN "done" ELSE next

Finished_MoreThanOne(res, details) ==
    [res EXCEPT !.replacements = Len(details),
                !.modified = Len(details) > 1,
                !.has_details = TRUE,
                !.details = details]

\* lines 80-82
Finished(res, details) ==
    [res EXCEPT !.replacements = Len(details),
                !.modified = Len(details) > 0,
                !.has_details = TRUE,
                !.details = details]

AfterWrite_KeepsModified(res, ok, i) ==
    IF ok THEN res ELSE [res EXCEPT !.errors = Append(@, "Failed to write file")]

\* lines 90-97: what the return value of _write_file does to the result
AfterWrite(res, ok, i) ==
    IF ok THEN res
    ELSE [res EXCEPT !.errors = Append(@, "Failed to write file"), !.modified = FALSE]

DoesBackup_Never(bk, dry) == FALSE

\* base.py line 52
DoesBackup(bk, dry) == bk /\ ~dry

DoesWrite_Always(dry) == TRUE

\* base.py line 61
DoesWrite(dry) == ~dry

Parse ==
    /\ pc = "idle"
    /\ idx <= Len(fs)
    /\ orig' = fs[idx]
    /\ origBak' = baks[idx]
    /\ events' = <<"parse">>
    /\ replacement_details' = <<>>
    /\ phaseLens' = <<>>
    /\ active_boms' = <<>>
    /\ content' = Malformed
    /\ IF fs[idx].wf
       THEN /\ tree' = fs[idx].doc
            /\ result' = NewResult(idx)
            /\ pc' = "A"
       ELSE /\ tree' = EmptyDoc
            /\ result' = OnException(NewResult(idx), "XML parse error")
            /\ pc' = "done"
    /\ UNCHANGED <<fs, baks, rules, dry_run, backup, pass, idx, results, history>>

Extend_InFront(details, changes) == changes \o details

\* replacement_details.extend(changes)
Extend(details, changes) == details \o changes

\* A phase that mutates the tree and extends replacement_details (lines 54-78)
RunPhase(here, next, r) ==
    /\ pc = here
    /\ tree' = r.tree
    /\ pc' = AfterPhase(r.exc, next)
    /\ IF r.exc /= ""
       THEN /\ result' = OnException(result, "Unexpected error")
            /\ UNCHANGED <<replacement_details, phaseLens, events>>
       ELSE /\ replacement_details' = Extend(replacement_details, r.changes)
            /\ phaseLens' = Append(phaseLens, Len(replacement_details) + Len(r.changes))
            /\ events' = Append(events, here)
            /\ UNCHANGED result
    /\ UNCHANGED <<fs, baks, rules, dry_run, backup, pass, idx, orig, origBak, active_boms,
                   content, results, history>>

PhaseA == RunPhase("A", "B", _update_dependency_management(tree, rules))

ExtractBoms ==
    /\ pc = "B"
    /\ active_boms' = _extract_active_boms(tree)
    /\ events' = Append(events, "B")
    /\ pc' = "C"
    /\ UNCHANGED <<fs, baks, rules, dry_run, backup, pass, idx, tree, orig, origBak,
                   replacement_details, phaseLens, content, result, results, history>>

PhaseC == RunPhase("C", "D", _migrate_dependencies(tree, rules))

PhaseD == RunPhase("D", "E", _cleanup_managed_versions(tree, active_boms))

PhaseE == RunPhase("E", "F", _update_properties(tree))

PhaseF == RunPhase("F", "finish", _update_plugins(tree))

Finish ==
    /\ pc = "finish"
    /\ result' = Finished(result, replacement_details)
    /\ pc' = IF result'.modified THEN "serialize" ELSE "done"
    /\ UNCHANGED <<fs, baks, rules, dry_run, backup, pass, idx, tree, orig, origBak,
                   replacement_details, phaseLens, active_boms, content, events,
                   results, history>>

\* lines 86-89
Serialize ==
    /\ pc = "serialize"
    /\ IF HasNonStrText(tree)
       THEN /\ result' = OnException(result, "Unexpected error")
            /\ pc' = AfterPhase("TypeError", "write")
            /\ UNCHANGED <<content, events>>
       ELSE /\ content' = Serialized(tree)
            /\ events' = Append(events, "serialize")
            /\ pc' = "write"
            /\ UNCHANGED result
    /\ UNCHANGED <<fs, baks, rules, dry_run, backup, pass, idx, tree, orig, origBak,
                   replacement_details, phaseLens, active_boms, results, history>>

\* _write_file (base.py 48-76) and lines 90-97.  backupOk and writeOk are the
\* file system's answers; a write that fails leaves the file as it was (open
\* failed) or truncated (the write failed after open).
WriteFile ==
    /\ pc = "write"
    /\ \E backupOk \in BOOLEAN, writeOk \in BOOLEAN, truncated \in BOOLEAN :
        LET copies == DoesBackup(backup, dry_run)
            writes == DoesWrite(dry_run)
            ok == ~writes \/ writeOk
        IN /\ (~copies => backupOk)
           /\ (~writes => writeOk)
           /\ (writeOk => ~truncated)
           /\ baks' = IF copies /\ backupOk THEN [baks EXCEPT ![idx] = <<fs[idx]>>] ELSE baks
           /\ fs' = IF writes /\ writeOk THEN [fs EXCEPT ![idx] = content]
                    ELSE IF writes /\ truncated THEN [fs EXCEPT ![idx] = Malformed]
                    ELSE fs
           /\ events' = events
                        \o (IF copies THEN <<IF backupOk THEN "backup" ELSE "backup_failed">> ELSE <<>>)
                        \o (IF writes THEN <<IF writeOk THEN "write" ELSE "write_failed">> ELSE <<>>)
           /\ result' = AfterWrite(result, ok, idx)
    /\ pc' = "done"
    /\ UNCHANGED <<rules, dry_run, backup, pass, idx, tree, orig, origBak, replacement_details,
                   phaseLens, active_boms, content, results, history>>

\* migration_engine.py lines 84-89: the result made for a file whose migrate_file raised
ErrorResult(i) ==
    [file_path |-> i, modified |-> FALSE, replacements |-> 0, errors |-> <<"raised">>,
     has_details |-> FALSE, details |-> <<>>]

\* migrate_directory lines 64-90: one turn of the loop, after migrate_file
\* returned or raised
Collect ==
    /\ pc \in {"done", "raised"}
    /\ results' = Append(results, IF pc = "raised" THEN ErrorResult(idx) ELSE result)
    /\ idx' = idx + 1
    /\ pc' = "idle"
    /\ UNCHANGED <<fs, baks, rules, dry_run, backup, pass, tree, orig, origBak,
                   replacement_details, phaseLens, active_boms, content, result,
                   events, history>>

\* main(): the tool is run again over the same directory, with the flags of
\* that command line
NextPass ==
    /\ pc = "idle"
    /\ idx > Len(fs)
    /\ pass < MaxPasses
    /\ history' = Append(history, [dry_run |-> dry_run, backup |-> backup, results |-> results])
    /\ pass' = pass + 1
    /\ idx' = 1
    /\ results' = <<>>
    /\ dry_run' \in BOOLEAN
    /\ backup' \in BOOLEAN
    /\ UNCHANGED <<fs, baks, rules, pc, tree, orig, origBak, replacement_details, phaseLens,
                   active_boms, content, result, events>>

Next ==
    \/ Parse
    \/ PhaseA
    \/ ExtractBoms
    \/ PhaseC
    \/ PhaseD
    \/ PhaseE
    \/ PhaseF
    \/ Finish
    \/ Serialize
    \/ WriteFile
    \/ Collect
    \/ NextPass

InitWith(Dirs, Tables) ==
    /\ fs \in Dirs
    /\ baks = [i \in 1..Len(fs) |-> <<>>]
    /\ rules \in Tables
    /\ dry_run \in BOOLEAN
    /\ backup \in BOOLEAN
    /\ pass = 1
    /\ idx = 1
    /\ pc = "idle"
    /\ tree = EmptyDoc
    /\ orig = Malformed
    /\ origBak = <<>>
    /\ replacement_details = <<>>
    /\ phaseLens = <<>>
    /\ active_boms = <<>>
    /\ content = Malformed
    /\ result = NewResult(0)
    /\ events = <<>>
    /\ results = <<>>
    /\ history = <<>>

-----------------------------------------------------------------------------
(* Generated inputs *)

E_EapBom == Dep(Elem(<<"org.jboss.bom">>), Elem(<<"jboss-", "eap", "-jakartaee8">>),
                Elem(<<"7.4", ".0.GA">>), Elem(<<"import">>), Elem(<<"pom">>))
E_HibCore == Dep(Elem(<<"org.hibernate">>), Elem(<<"hibernate-core">>),
                 Elem(<<"5.", "3">>), NoElem, NoElem)
E_HibEm == Dep(Elem(<<"org.hibernate">>), Elem(<<"hibernate-entitymanager">>),
               Elem(<<"5.", "3">>), NoElem, NoElem)
E_AcmeBom == Dep(Elem(<<"com.acme">>), Elem(<<"platform-bom">>),
                 Elem(<<"1">>), Elem(<<"import">>), Elem(<<"pom">>))
E_AcmeLegacy == Dep(Elem(<<"com.acme">>), Elem(<<"legacy">>), Elem(<<"1">>), NoElem, NoElem)
E_HibOrm == Dep(Elem(<<"org.hibernate.orm">>), Elem(<<"hibernate-core">>),
                Elem(<<"6.", "2">>), NoElem, NoElem)
E_Lib == Dep(Elem(<<"com.acme">>), Elem(<<"lib">>), Elem(<<"1">>), Elem(<<"compile">>), Elem(<<"jar">>))

P_Javax == Prop(<<"api", ".", "package">>, <<"javax", ".", "ejb">>)
Q_Java8 == Plugin(CompilerPlugin, TRUE, Elem(<<"1.8">>), Elem(<<"1.8">>), <<>>)

Managed(dep) == [kind |-> "managed", x |-> dep]
Regular(dep) == [kind |-> "regular", x |-> dep]
Property(prop) == [kind |-> "prop", x |-> prop]
PluginItem(pl) == [kind |-> "plugin", x |-> pl]
\* an entry of the dependencyManagement section of a profile
ProfileManaged(dep) == [kind |-> "profile", x |-> dep]

\* The elements of kind k among the items, in their order
RECURSIVE OfKind(_, _)
OfKind(items, k) ==
    IF items = <<>> THEN <<>>
    ELSE (IF Head(items).kind = k THEN <<Head(items).x>> ELSE <<>>) \o OfKind(Tail(items), k)

\* The document with these items: the dependencyManagement section first, then
\* the project's dependencies, the dependencyManagement section of a profile,
\* the properties and the build plugins
DocOf(items) ==
    LET m == OfKind(items, "managed")
        r == OfKind(items, "regular")
        f == OfKind(items, "profile")
        q == OfKind(items, "prop")
    IN [blocks |-> (IF m = <<>> THEN <<>> ELSE <<Block(TRUE, m)>>)
                   \o (IF r = <<>> THEN <<>> ELSE <<Block(FALSE, r)>>)
                   \o (IF f = <<>> THEN <<>> ELSE <<Block(TRUE, f)>>),
        props |-> [p |-> q /= <<>>, items |-> q],
        plugins |-> OfKind(items, "plugin")]

ItemSeqs(Pool, n) == UNION {[1..k -> Pool] : k \in 0..n}

DocsOf(Pool) == {DocOf(items) : items \in ItemSeqs(Pool, MaxItems)}

MainPool ==
    {Managed(E_EapBom), Managed(E_HibCore), Regular(E_HibEm), Managed(E_AcmeBom),
     Regular(E_AcmeLegacy), Regular(E_Lib), Regular(E_HibOrm), Property(P_Javax),
     PluginItem(Q_Java8)}

\* A directory with one pom.xml
Init == InitWith({<<WellFormed(d)>> : d \in DocsOf(MainPool)} \cup {<<Malformed>>}, RuleTables)

Spec == Init /\ [][Next]_vars

\* Directories of several files: one that does not parse, one a phase
\* changes, one on which a phase raises, one that needs nothing
FilePool ==
    {Malformed, WellFormed(DocOf(<<Managed(E_EapBom)>>)),
     WellFormed(DocOf(<<Regular(E_AcmeLegacy)>>)), WellFormed(DocOf(<<Regular(E_Lib)>>))}

InitDir == InitWith(UNION {[1..n -> FilePool] : n \in 1..MaxFiles}, {CustomRules})

SpecDir == InitDir /\ [][Next]_vars

\* Managed and regular entries with every combination of scope and type
E_ScopeOnly == Dep(Elem(<<"com.acme">>), Elem(<<"scope-only">>), Elem(<<"1">>),
                   Elem(<<"import">>), Elem(<<"jar">>))
E_TypeOnly == Dep(Elem(<<"com.acme">>), Elem(<<"type-only">>), Elem(<<"1">>),
                  Elem(<<"compile">>), Elem(<<"pom">>))
E_ImportNoType == Dep(Elem(<<"com.acme">>), Elem(<<"no-type">>), Elem(<<"1">>),
                      Elem(<<"import">>), NoElem)
E_SpringBom == Dep(Elem(<<"org.springframework">>), Elem(<<"spring-bom">>), Elem(<<"6">>),
                   Elem(<<"import">>), Elem(<<"pom">>))

P_HibVersion5 == Prop(<<"hibernate", ".", "version">>, <<"5.", "3">>)
P_HibVersion6 == Prop(<<"version", ".", "hibernate">>, <<"6.", "2">>)
P_JavaxNoDot == Prop(<<"tools">>, <<"javax", "tools">>)
Q_Java17and8 == Plugin(CompilerPlugin, TRUE, Elem(<<"17">>), Elem(<<"1.8">>), <<>>)
Q_Java17 == Plugin(CompilerPlugin, TRUE, Elem(<<"17">>), Elem(<<"17">>), <<>>)

\* Descriptors whose coordinates are mostly no keys of the rule table, with
\* properties and plugins the last two phases do and do not rewrite
PlainPool ==
    {Regular(E_Lib), Regular(E_HibOrm), Managed(E_Lib), Managed(E_ScopeOnly),
     Managed(E_HibCore), Property(P_Javax), Property(P_HibVersion5), Property(P_HibVersion6),
     Property(P_JavaxNoDot), PluginItem(Q_Java17and8), PluginItem(Q_Java17)}

InitPlain == InitWith({<<WellFormed(d)>> : d \in DocsOf(PlainPool)}, RuleTables)

SpecPlain == InitPlain /\ [][Next]_vars

BomPool ==
    {Managed(E_EapBom), Managed(E_ScopeOnly), Managed(E_TypeOnly), Managed(E_ImportNoType),
     Managed(E_Lib), Managed(E_AcmeBom), Regular(E_SpringBom), Regular(E_ScopeOnly)}

InitBom == InitWith({<<WellFormed(d)>> : d \in DocsOf(BomPool)}, RuleTables)

SpecBom == InitBom /\ [][Next]_vars

\* BOMs that carry and do not carry the 'eap' marker, literal and placeholder
\* versions, entries of the built-in managed set in every kind of section
E_EapBomPh == Dep(Elem(<<"org.jboss.bom">>), Elem(<<"jboss-", "eap", "-jakartaee8">>),
                  Elem(<<"${", "version.eap", "}">>), Elem(<<"import">>), Elem(<<"pom">>))
E_UpperEapBom == Dep(Elem(<<"com.acme">>), Elem(<<"JBOSS-", "EAP", "-BOM">>),
                     Elem(<<"1">>), Elem(<<"import">>), Elem(<<"pom">>))
E_HibOrmPh == Dep(Elem(<<"org.hibernate.orm">>), Elem(<<"hibernate-core">>),
                  Elem(<<"${", "version.hibernate", "}">>), NoElem, NoElem)

DepsPool ==
    {Managed(E_EapBom), Managed(E_EapBomPh), Managed(E_SpringBom), Managed(E_UpperEapBom),
     Regular(E_HibOrm), Regular(E_HibOrmPh), ProfileManaged(E_HibEm)}

InitDeps == InitWith({<<WellFormed(d)>> : d \in DocsOf(DepsPool)}, RuleTables)

SpecDeps == InitDeps /\ [][Next]_vars

\* Descriptors that import the EAP BOM and have dependencies of the built-in
\* managed set, with literal and placeholder versions, in both kinds of
\* section, a property and a plugin
EapPool ==
    {Regular(E_HibOrm), Regular(E_HibOrmPh), Regular(E_Lib), Regular(E_HibEm),
     Managed(E_HibOrm), Managed(E_HibOrmPh), Property(P_Javax), PluginItem(Q_Java8)}

InitEap ==
    InitWith({<<WellFormed(DocOf(<<Managed(E_EapBom)>> \o items))>> :
                 items \in ItemSeqs(EapPool, MaxItems)}, RuleTables)

SpecEap == InitEap /\ [][Next]_vars

\* Properties with one and two occurrences of 'javax.', and plugins with
\* legacy and current language levels
P_JavaxTwice == Prop(<<"api", ".", "packages">>, <<"javax", ".", "ejb", ",", "javax", ".", "jms">>)
Q_Java8Release == Plugin(CompilerPlugin, TRUE, Elem(<<"1.8">>), Elem(<<"1.8">>),
                         <<[text |-> <<"8">>, qualified |-> TRUE]>>)
Q_Surefire8 == Plugin(<<"maven-surefire-plugin">>, TRUE, Elem(<<"1.8">>), Elem(<<"1.8">>), <<>>)

BuildPool ==
    {Property(P_Javax), Property(P_JavaxTwice), Property(P_HibVersion5),
     PluginItem(Q_Java8), PluginItem(Q_Java17and8), PluginItem(Q_Java17),
     PluginItem(Q_Java8Release), PluginItem(Q_Surefire8)}

InitBuild == InitWith({<<WellFormed(d)>> : d \in DocsOf(BuildPool)}, RuleTables)

SpecBuild == InitBuild /\ [][Next]_vars

\* Version properties of the three named components, with texts that equal,
\* begin with, contain and do not contain the legacy versions
P_EapVersion == Prop(<<"version", ".", "eap">>, <<"7.4">>)
P_EapVersionGA == Prop(<<"EAP", ".", "Version">>, <<"7.4", ".0.GA">>)
P_EapVersionInner == Prop(<<"version", ".", "eap">>, <<"1.", "7.4">>)
P_EapVersion8 == Prop(<<"version", ".", "eap">>, <<"8.0.0.GA">>)
P_EapRelease == Prop(<<"eap", ".", "release">>, <<"7.4">>)
P_ResteasyVersion4 == Prop(<<"version", ".", "resteasy">>, <<"4.", "7">>)
P_JavaxVersion == Prop(<<"version", ".", "api">>, <<"javax", ".", "5.">>)

VersionPool ==
    {Property(P_EapVersion), Property(P_EapVersionGA), Property(P_EapVersionInner),
     Property(P_EapVersion8), Property(P_EapRelease), Property(P_HibVersion5),
     Property(P_ResteasyVersion4), Property(P_JavaxVersion)}

InitVersions == InitWith({<<WellFormed(d)>> : d \in DocsOf(VersionPool)}, RuleTables)

SpecVersions == InitVersions /\ [][Next]_vars

\* BOM entries without a groupId or artifactId element, or with an empty one
E_BomNoArtifact == Dep(Elem(<<"com.acme">>), NoElem, Elem(<<"1">>), Elem(<<"import">>), Elem(<<"pom">>))
E_BomEmptyArtifact == Dep(Elem(<<"com.acme">>), Elem(None), Elem(<<"1">>),
                          Elem(<<"import">>), Elem(<<"pom">>))
E_BomEmptyGroup == Dep(Elem(None), Elem(<<"jboss-", "eap", "-bom">>), Elem(<<"1">>),
                       Elem(<<"import">>), Elem(<<"pom">>))
E_BomNoGroup == Dep(NoElem, Elem(<<"jboss-", "eap", "-bom">>), Elem(<<"1">>),
                    Elem(<<"import">>), Elem(<<"pom">>))

BadBomPool ==
    {Managed(E_BomNoArtifact), Managed(E_BomEmptyArtifact), Managed(E_BomEmptyGroup),
     Managed(E_BomNoGroup), Managed(E_EapBom), Regular(E_HibOrm)}

InitBadBom == InitWith({<<WellFormed(d)>> : d \in DocsOf(BadBomPool)}, RuleTables)

SpecBadBom == InitBadBom /\ [][Next]_vars

-----------------------------------------------------------------------------
(* Vocabulary of the properties *)

Has(e) == \E k \in 1..Len(events) : events[k] = e

\* migrate_file has returned and the engine has not yet taken the result
Returned == pc = "done"

\* all five mutating phases have completed in the current call
AllPhasesRan == \A ph \in {"A", "C", "D", "E", "F"} : Has(ph)

IOEvents == {"backup", "backup_failed", "write", "write_failed"}

\* the dependency entries of a document, each with the kind of its section
EntriesIn(doc) ==
    UNION {{[managed |-> doc.blocks[b].managed, dep |-> doc.blocks[b].entries[i]] :
                i \in 1..Len(doc.blocks[b].entries)} : b \in 1..Len(doc.blocks)}

\* the entry has a coordinate and it is a key of the rule table
HasRuleKey(dep) ==
    dep.groupId.p /\ dep.artifactId.p /\ Key(dep.groupId.text, dep.artifactId.text) \in DOMAIN rules

\* scope import and type pom, as the specification states it
QualifiesAsBom(dep) ==
    /\ dep.scope.p /\ dep.type.p
    /\ dep.scope.text = <<"import">>
    /\ dep.type.text = <<"pom">>

\* the result the previous pass gave for the current file
PrevResult == history[pass - 1].results[idx]

-----------------------------------------------------------------------------
(* C1 *)

\* C1: idempotence of migrate_file: when the previous run of the tool was a
\* real run that ended without error for this file, so that the file now
\* holds that run's output, the next run returns an empty change list,
\* replacements = 0 and modified = false.
CX_C1_SecondRunIsEmpty ==
    (/\ Returned
     /\ pass >= 2
     /\ ~history[pass - 1].dry_run
     /\ PrevResult.errors = <<>>)
    => (/\ replacement_details = <<>>
        /\ result.replacements = 0
        /\ ~result.modified)

-----------------------------------------------------------------------------
(* C2 *)

C2_NoRuleKeyNoBom ==
    /\ orig.wf
    /\ \A e \in EntriesIn(orig.doc) : ~HasRuleKey(e.dep)
    /\ \A e \in EntriesIn(orig.doc) : e.managed => ~QualifiesAsBom(e.dep)

C2_Untouched ==
    /\ replacement_details = <<>>
    /\ result.replacements = 0
    /\ ~result.modified
    /\ tree = orig.doc
    /\ fs[idx] = orig

\* C2 as stated: a descriptor in which no coordinate is a key of the rule
\* table and no managed entry qualifies as a BOM comes back with an empty
\* change list and an unchanged tree.
CX_C2_NoKeyNoBomUntouched ==
    (Returned /\ C2_NoRuleKeyNoBom) => C2_Untouched

\* the property's tag name contains 'version' and its text is one of the
\* legacy versions of the named components
C2_LegacyVersion(prop) ==
    LET n == Lower(prop.name)
    IN /\ Contains(n, <<"version">>)
       /\ \/ Contains(n, <<"eap">>) /\ Contains(prop.text, <<"7.4">>)
          \/ Contains(n, <<"hibernate">>) /\ StartsWith(prop.text, <<"5.">>)
          \/ Contains(n, <<"resteasy">>) /\ StartsWith(prop.text, <<"3.">>)
          \/ Contains(n, <<"resteasy">>) /\ StartsWith(prop.text, <<"4.">>)

\* what the property and plugin phases look for is not there
C2_NothingForPropertiesOrPlugins ==
    /\ \A i \in 1..Len(orig.doc.props.items) :
          LET prop == orig.doc.props.items[i]
          IN /\ ~Contains(prop.text, <<"javax", ".">>)
             /\ ~C2_LegacyVersion(prop)
    /\ \A i \in 1..Len(orig.doc.plugins) :
          LET pl == orig.doc.plugins[i]
          IN ~(/\ pl.artifactId = CompilerPlugin
               /\ pl.hasConfig /\ pl.source.p /\ pl.target.p
               /\ \E lv \in {<<"1.8">>, <<"8">>} : pl.source.text = lv \/ pl.target.text = lv)

\* C2, amended: a descriptor in which no coordinate is a key of the rule
\* table, no managed entry qualifies as a BOM, no property has 'javax.' in
\* its text or is a version property holding a legacy version, and no
\* maven-compiler-plugin configuration has a source and a target of which one
\* is 1.8 or 8, comes back with an empty change list, an unchanged tree and
\* an unwritten file.
T_C2_NoKeyNoBomNoPropertyNoPlugin ==
    (Returned /\ C2_NoRuleKeyNoBom /\ C2_NothingForPropertiesOrPlugins) => C2_Untouched

W_C2_UntouchedDescriptor ==
    /\ Returned
    /\ C2_NoRuleKeyNoBom
    /\ C2_NothingForPropertiesOrPlugins
    /\ AllPhasesRan
    /\ \E e \in EntriesIn(orig.doc) :
          /\ Key(e.dep.groupId.text, e.dep.artifactId.text) \in managed_dependencies
          /\ e.dep.version.p
    /\ orig.doc.props.p
    /\ Contains(orig.doc.props.items[1].name, <<"version">>)

-----------------------------------------------------------------------------
(* C3 *)

\* C3: in a result returned by migrate_file, a non-empty error list and
\* modified = true never hold together.
CX_C3_ErrorsExcludeModified ==
    Returned => ~(result.errors /= <<>> /\ result.modified)

-----------------------------------------------------------------------------
(* C4 *)

\* C4: the file and its .bak are touched only after phases A, C, D, E and F
\* have all completed in the same call; a call whose parsing failed or in
\* which a phase raised leaves file and .bak as they were.
T_C4_WriteOnlyAfterAllPhases ==
    /\ \A k \in 1..Len(events) :
          events[k] \in IOEvents =>
             \A ph \in {"A", "C", "D", "E", "F"} : \E j \in 1..(k - 1) : events[j] = ph
    /\ (pc \notin {"idle", "done"} \/ (Returned /\ ~AllPhasesRan)) =>
          (/\ fs[idx] = orig
           /\ baks[idx] = origBak
           /\ \A k \in 1..Len(events) : events[k] \notin IOEvents)
    /\ (Returned /\ (fs[idx] /= orig \/ baks[idx] /= origBak)) => AllPhasesRan

W_C4_WrittenAfterPhases ==
    /\ Returned
    /\ Has("write")
    /\ fs[idx] /= orig
    /\ Len(replacement_details) >= 2

-----------------------------------------------------------------------------
(* C5 *)

\* C5: a dry run writes neither the descriptor nor a .bak, and a real run
\* that succeeds on the input a dry run has just seen returns the same change
\* list, replacement count and modified flag as the dry run did.
T_C5_DryRunWritesNothingSameRecords ==
    /\ (dry_run /\ pc /= "idle") =>
          (/\ fs[idx] = orig
           /\ baks[idx] = origBak
           /\ \A k \in 1..Len(events) : events[k] \notin IOEvents)
    /\ (/\ Returned
        /\ pass >= 2
        /\ history[pass - 1].dry_run
        /\ ~dry_run
        /\ result.errors = <<>>)
       => (/\ result.details = PrevResult.details
           /\ result.replacements = PrevResult.replacements
           /\ result.modified = PrevResult.modified
           /\ PrevResult.errors = <<>>)

W_C5_RealRunAfterDryRun ==
    /\ Returned
    /\ pass >= 2
    /\ history[pass - 1].dry_run
    /\ ~dry_run
    /\ result.errors = <<>>
    /\ Len(result.details) >= 2
    /\ Has("write")

-----------------------------------------------------------------------------
(* C6 *)

\* C6 as stated: with backup on and dry-run off, the descriptor is
\* overwritten only when the .bak has been written successfully from the
\* bytes the file held before.
CX_C6_NoOverwriteWithoutBackup ==
    (Returned /\ backup /\ ~dry_run /\ Has("write")) => (Has("backup") /\ baks[idx] = <<orig>>)

\* C6, amended: with backup on and dry-run off, the descriptor is never
\* written before the copy to the .bak file has been attempted; when the copy
\* succeeds the .bak holds the bytes the file held before the overwrite; when
\* the copy fails the .bak is left as it was and the write is attempted all
\* the same.
T_C6_BackupAttemptedBeforeOverwrite ==
    (Returned /\ backup /\ ~dry_run) =>
        /\ \A k \in 1..Len(events) :
              events[k] \in {"write", "write_failed"} =>
                 \E j \in 1..(k - 1) : events[j] \in {"backup", "backup_failed"}
        /\ Has("backup") => baks[idx] = <<orig>>
        /\ Has("backup_failed") =>
              (baks[idx] = origBak /\ (Has("write") \/ Has("write_failed")))
        /\ fs[idx] /= orig => (Has("backup") \/ Has("backup_failed"))

W_C6_OverwrittenAfterFailedBackup ==
    /\ Returned
    /\ backup /\ ~dry_run
    /\ Has("backup_failed")
    /\ Has("write")
    /\ fs[idx] /= orig
    /\ baks[idx] = <<>>

-----------------------------------------------------------------------------
(* C7 *)

\* C7: when the write of the serialized descriptor fails, the result has
\* modified = false and a non-empty error list although the phases recorded
\* changes.
T_C7_FailedWriteNotModified ==
    (Returned /\ Has("write_failed")) =>
        (/\ ~result.modified
         /\ result.errors /= <<>>
         /\ Len(replacement_details) > 0
         /\ result.replacements > 0)

W_C7_WriteFailed ==
    /\ Returned
    /\ Has("write_failed")
    /\ ~dry_run

-----------------------------------------------------------------------------
(* C9 *)

\* C9 as stated: in a result returned after all phases ran, modified is true
\* exactly when the change-record sequence is non-empty, and replacements is
\* its length.
CX_C9_ModifiedIffRecords ==
    (Returned /\ AllPhasesRan) =>
        (/\ result.modified <=> (Len(replacement_details) > 0)
         /\ result.replacements = Len(replacement_details))

\* C9, amended: in a result returned after all phases ran, replacements is
\* the length of the change-record sequence, and modified is true exactly
\* when that sequence is non-empty and _write_file did not report a failure.
T_C9_ModifiedIffRecordsAndWritten ==
    (Returned /\ AllPhasesRan) =>
        (/\ result.modified <=> (Len(replacement_details) > 0 /\ ~Has("write_failed"))
         /\ result.replacements = Len(replacement_details)
         /\ result.details = replacement_details)

W_C9_RecordsButNotModified ==
    /\ Returned
    /\ AllPhasesRan
    /\ ~result.modified
    /\ result.replacements = 2

-----------------------------------------------------------------------------
(* C8 *)

\* a failure happened in the current call: the file did not parse, a phase or
\* the serialization raised, or the write failed
C8_Failed == ~orig.wf \/ ~AllPhasesRan \/ (result.modified /\ ~Has("serialize")) \/ Has("write_failed")

\* C8: migrate_file never raises, every parse, phase or write failure is an
\* entry of the result's error list, and migrate_directory has exactly one
\* result for every file it has gone past, in the order of the files,
\* whatever happened to the files before.
T_C8_OneResultPerFile ==
    /\ pc /= "raised"
    /\ (Returned /\ C8_Failed) => result.errors /= <<>>
    /\ pc = "idle" =>
          (/\ Len(results) = idx - 1
           /\ \A k \in 1..Len(results) : results[k].file_path = k)
    /\ pc /= "idle" => (Len(results) = idx - 1 /\ idx <= Len(fs))

W_C8_FileAfterFailedFile ==
    /\ pc = "idle"
    /\ idx > Len(fs)
    /\ Len(results) = Len(fs)
    /\ Len(fs) >= 2
    /\ results[1].errors /= <<>>
    /\ results[2].errors = <<>>
    /\ results[2].modified

-----------------------------------------------------------------------------
(* C10 *)

\* the places of the managed entries of a document that qualify as BOMs
C10_QualifyingPlaces(doc) ==
    {bi \in UNION {{<<b, i>> : i \in 1..Len(doc.blocks[b].entries)} : b \in 1..Len(doc.blocks)} :
        /\ doc.blocks[bi[1]].managed
        /\ QualifiesAsBom(doc.blocks[bi[1]].entries[bi[2]])}

\* C10: right after the extraction, every active BOM is a managed entry
\* whose scope is 'import' and whose type is 'pom', and there are no more
\* active BOMs than such entries: an entry with one of the two only, or a
\* regular dependency, is never among them.
T_C10_ActiveBomsQualify ==
    pc = "C" =>
        /\ \A k \in 1..Len(active_boms) :
              \E bi \in C10_QualifyingPlaces(tree) :
                 LET dep == tree.blocks[bi[1]].entries[bi[2]]
                 IN /\ dep.groupId.text = active_boms[k].group_id
                    /\ dep.artifactId.text = active_boms[k].artifact_id
        /\ Len(active_boms) <= Cardinality(C10_QualifyingPlaces(tree))

W_C10_OneOfTwoEntriesIsBom ==
    /\ pc = "C"
    /\ Len(active_boms) = 1
    /\ Cardinality(EntriesIn(tree)) = 2
    /\ \E e \in EntriesIn(tree) :
          /\ ~QualifiesAsBom(e.dep)
          /\ e.dep.scope.p /\ e.dep.scope.text = <<"import">>

-----------------------------------------------------------------------------
(* C11 *)

\* the text has the form ${...}
C11_PlaceholderForm(t) == Len(t) >= 2 /\ t[1] = "${" /\ t[Len(t)] = "}"

\* the places of the dependency entries of a document
Places(doc) ==
    UNION {{<<b, i>> : i \in 1..Len(doc.blocks[b].entries)} : b \in 1..Len(doc.blocks)}

EntryAt(doc, bi) == doc.blocks[bi[1]].entries[bi[2]]

\* a step of Phase A or of Phase D keeps the placeholder versions
C11_KeepsPlaceholders ==
    pc \in {"A", "D"} =>
        \A bi \in Places(tree) :
           LET v == EntryAt(tree, bi).version
           IN (v.p /\ C11_PlaceholderForm(v.text)) => EntryAt(tree', bi).version = v

\* C11: a step of Phase A or of Phase D leaves every version element whose
\* text is a placeholder ${...} in place and with the same text, whatever
\* the document and the rule table.
T_C11_PlaceholderVersionsKept == [][C11_KeepsPlaceholders]_vars

\* after Phase D with an EAP BOM active: a BOM entry Phase A recorded with
\* its placeholder version kept, and a regular dependency of the managed set
\* that still has its placeholder version
W_C11_PlaceholdersAfterBothPhases ==
    /\ pc = "E"
    /\ \E k \in 1..Len(active_boms) : IsEapBom(active_boms[k])
    /\ \E k \in 1..Len(replacement_details) :
          /\ replacement_details[k].type = "bom_update"
          /\ "note" \in DOMAIN replacement_details[k]
    /\ \E e \in EntriesIn(tree) :
          /\ e.managed /\ QualifiesAsBom(e.dep)
          /\ e.dep.version.p /\ C11_PlaceholderForm(e.dep.version.text)
    /\ \E e \in EntriesIn(tree) :
          /\ ~e.managed
          /\ Key(e.dep.groupId.text, e.dep.artifactId.text) \in managed_dependencies
          /\ e.dep.version.p /\ C11_PlaceholderForm(e.dep.version.text)

-----------------------------------------------------------------------------
(* C12 *)

\* the artifact id carries the marker 'eap' in either case
C12_Marked(bom) ==
    \E i \in 1..Len(bom.artifact_id) : bom.artifact_id[i] \in {"eap", "EAP"}

C12_NoMarkedBom == \A k \in 1..Len(active_boms) : ~C12_Marked(active_boms[k])

C12_NoOpWithoutMarker ==
    (pc = "D" /\ C12_NoMarkedBom) =>
        /\ tree' = tree
        /\ replacement_details' = replacement_details

\* C12: when no active BOM's artifact id contains 'eap' in any case, the
\* empty BOM set included, the step of Phase D removes no version element
\* and appends no record.
T_C12_NoMarkerNoCleanup == [][C12_NoOpWithoutMarker]_vars

\* Phase D has run with one BOM active, which has no marker, over a regular
\* dependency of the managed set with a literal version, and it is still there
W_C12_UnmarkedBomKeepsVersion ==
    /\ pc = "E"
    /\ Len(active_boms) = 1
    /\ C12_NoMarkedBom
    /\ \E e \in EntriesIn(tree) :
          /\ ~e.managed
          /\ Key(e.dep.groupId.text, e.dep.artifactId.text) \in managed_dependencies
          /\ e.dep.version.p /\ ~C11_PlaceholderForm(e.dep.version.text)

-----------------------------------------------------------------------------
(* C13 *)

\* the rule's replacement coordinate has no ':' between a group and an artifact
C13_Defective(mapping) ==
    /\ mapping.has_new_artifact
    /\ \A i \in 1..Len(mapping.new_artifact) : mapping.new_artifact[i] /= ":"

\* some dependency of the file has a key whose rule is defective
C13_MeetsDefectiveRule ==
    /\ orig.wf
    /\ \E e \in EntriesIn(orig.doc) :
          /\ HasRuleKey(e.dep)
          /\ C13_Defective(rules[Key(e.dep.groupId.text, e.dep.artifactId.text)])

\* C13 as stated: a file with a dependency whose rule has a replacement
\* coordinate that is not 'group:artifact' is migrated with that rule
\* skipped: migrate_file returns a result without errors.
CX_C13_DefectiveRuleSkipped ==
    (Returned /\ C13_MeetsDefectiveRule) => result.errors = <<>>

-----------------------------------------------------------------------------
(* C14 *)

\* the position of the ':' of a coordinate 'group:artifact'
C14_Colon(t) == CHOOSE k \in 1..Len(t) : t[k] = ":"

\* the entry at this place of the input is one Phase A iterates over,
\* qualifies as a BOM, has a literal version, and its key has a rule with a
\* new coordinate 'group:artifact' and a new version
C14_BomWithFullRule(bi) ==
    LET dep == EntryAt(orig.doc, bi)
        key == Key(dep.groupId.text, dep.artifactId.text)
    IN /\ bi[1] = FirstDepMgmt(orig.doc)
       /\ QualifiesAsBom(dep)
       /\ dep.version.p /\ ~C11_PlaceholderForm(dep.version.text)
       /\ HasRuleKey(dep)
       /\ rules[key].has_new_artifact /\ ~C13_Defective(rules[key])
       /\ rules[key].has_new_version

\* the records Phase A made of the update of this key and version
C14_RecordsOf(key, version) ==
    {k \in 1..Len(replacement_details) :
        /\ replacement_details[k].type = "bom_update"
        /\ "note" \notin DOMAIN replacement_details[k]
        /\ replacement_details[k].old = key \o <<":">> \o version}

\* C14: right after Phase A, every managed entry that qualified as a BOM,
\* had a literal version and a rule with a new coordinate and a new version
\* now has the rule's group, artifact and version, and there is exactly one
\* bom_update record for each such entry.
T_C14_BomRewrittenWithOneRecord ==
    (pc = "B" /\ orig.wf) =>
        \A bi \in Places(orig.doc) :
           C14_BomWithFullRule(bi) =>
              LET dep == EntryAt(orig.doc, bi)
                  key == Key(dep.groupId.text, dep.artifactId.text)
                  coord == rules[key].new_artifact
                  now == EntryAt(tree, bi)
              IN /\ now.groupId.text = SubSeq(coord, 1, C14_Colon(coord) - 1)
                 /\ now.artifactId.text = SubSeq(coord, C14_Colon(coord) + 1, Len(coord))
                 /\ now.version.p /\ now.version.text = rules[key].new_version
                 /\ Cardinality(C14_RecordsOf(key, dep.version.text)) =
                       Cardinality({bj \in Places(orig.doc) :
                                       /\ C14_BomWithFullRule(bj)
                                       /\ EntryAt(orig.doc, bj) = dep})

\* Phase A has rewritten one such BOM in a section with a second entry, for
\* which it made a record too
W_C14_OneBomOfTwoRewritten ==
    /\ pc = "B" /\ orig.wf
    /\ Cardinality({bi \in Places(orig.doc) : C14_BomWithFullRule(bi)}) = 1
    /\ Len(replacement_details) = 2

-----------------------------------------------------------------------------
(* C15 *)

\* the records the current step appends
NewRecords ==
    SubSeq(replacement_details', Len(replacement_details) + 1, Len(replacement_details'))

\* the new version_removed records of this key and version
C15_Removals(key, version) ==
    {k \in 1..Len(NewRecords) :
        /\ NewRecords[k].type = "version_removed"
        /\ NewRecords[k].dependency = key
        /\ NewRecords[k].old_version = version}

\* the entries of this key and version that lose their version element in the step
C15_Removed(key, version) ==
    {bi \in Places(tree) :
        LET dep == EntryAt(tree, bi)
        IN /\ Key(dep.groupId.text, dep.artifactId.text) = key
           /\ dep.version.p /\ dep.version.text = version
           /\ ~EntryAt(tree', bi).version.p}

C15_CleansRegularDependencies ==
    (pc = "D" /\ ~C12_NoMarkedBom) =>
        \A bi \in Places(tree) :
           LET dep == EntryAt(tree, bi)
               key == Key(dep.groupId.text, dep.artifactId.text)
           IN (/\ ~tree.blocks[bi[1]].managed
               /\ dep.groupId.p /\ dep.artifactId.p /\ dep.version.p
               /\ key \in managed_dependencies)
              => IF C11_PlaceholderForm(dep.version.text)
                 THEN /\ EntryAt(tree', bi).version = dep.version
                      /\ C15_Removals(key, dep.version.text) = {}
                 ELSE /\ ~EntryAt(tree', bi).version.p
                      /\ Cardinality(C15_Removals(key, dep.version.text)) =
                            Cardinality(C15_Removed(key, dep.version.text))

\* C15: in the step of Phase D with an active BOM that carries the marker,
\* every regular dependency of the managed set with a literal version loses
\* its version element, with one version_removed record for each version
\* element removed, and every such dependency with a placeholder version
\* keeps it, with no version_removed record.
T_C15_LiteralRemovedPlaceholderKept == [][C15_CleansRegularDependencies]_vars

\* after Phase D: beside the BOM, a regular dependency of the managed set
\* whose version is gone, with its record, and one that keeps its placeholder
W_C15_OneRemovedOneKept ==
    /\ pc = "E"
    /\ ~C12_NoMarkedBom
    /\ Len(replacement_details) >= 2
    /\ replacement_details[Len(replacement_details)].type = "version_removed"
    /\ replacement_details[Len(replacement_details) - 1].type /= "version_removed"
    /\ \E e \in EntriesIn(tree) :
          /\ ~e.managed /\ ~e.dep.version.p
          /\ Key(e.dep.groupId.text, e.dep.artifactId.text) \in managed_dependencies
    /\ \E e \in EntriesIn(tree) :
          /\ ~e.managed
          /\ e.dep.version.p /\ C11_PlaceholderForm(e.dep.version.text)
          /\ Key(e.dep.groupId.text, e.dep.artifactId.text) \in managed_dependencies

-----------------------------------------------------------------------------
(* C16 *)

\* a maven-compiler-plugin whose configuration has source 1.8 and target 1.8
C16_Java8Plugin(pl) ==
    /\ pl.artifactId = <<"maven-compiler-plugin">>
    /\ pl.hasConfig
    /\ pl.source.p /\ pl.source.text = <<"1.8">>
    /\ pl.target.p /\ pl.target.text = <<"1.8">>

\* the plugins the current step changes
C16_Changed == {i \in 1..Len(tree.plugins) : tree'.plugins[i] /= tree.plugins[i]}

C16_UpdatesJava8Plugins ==
    pc = "F" =>
        /\ \A i \in 1..Len(tree.plugins) :
              C16_Java8Plugin(tree.plugins[i]) =>
                 LET now == tree'.plugins[i]
                 IN /\ ~now.source.p /\ ~now.target.p
                    /\ Len(now.release) = Len(tree.plugins[i].release) + 1
                    /\ SubSeq(now.release, 1, Len(tree.plugins[i].release)) = tree.plugins[i].release
                    /\ now.release[Len(now.release)].text = <<"11">>
        /\ Cardinality({k \in 1..Len(NewRecords) : NewRecords[k].type = "plugin_update"})
              = Cardinality(C16_Changed)

\* C16: in the step of Phase F, every maven-compiler-plugin with source 1.8
\* and target 1.8 loses both elements and gets exactly one new release
\* element with text 11, and the step appends exactly one plugin_update
\* record for each plugin it changes.
T_C16_Java8BecomesRelease11 == [][C16_UpdatesJava8Plugins]_vars

\* Phase F has rewritten one plugin, beside a plugin it left alone
W_C16_OnePluginOfTwoUpdated ==
    /\ pc = "finish"
    /\ orig.wf
    /\ Len(tree.plugins) = 2
    /\ \E i, j \in 1..2 :
          /\ C16_Java8Plugin(orig.doc.plugins[i])
          /\ orig.doc.plugins[i].release = <<>>
          /\ Len(tree.plugins[i].release) = 1
          /\ tree.plugins[j] = orig.doc.plugins[j]
    /\ Len(replacement_details) = 1
    /\ replacement_details[1].type = "plugin_update"

-----------------------------------------------------------------------------
(* C17 *)

C17_KeepsManagedVersions ==
    pc = "D" =>
        \A bi \in Places(tree) :
           (tree.blocks[bi[1]].managed /\ EntryAt(tree, bi).version.p)
              => EntryAt(tree', bi).version.p

\* C17 as stated: the step of Phase D removes the version element of no
\* entry under dependencyManagement, whatever its coordinate and whatever
\* BOMs are active.
CX_C17_ManagedVersionsNeverRemoved == [][C17_KeepsManagedVersions]_vars

-----------------------------------------------------------------------------
(* C18 *)

C18_LeavesManagedEntries ==
    pc = "C" =>
        \A bi \in Places(tree) :
           tree.blocks[bi[1]].managed =>
              /\ EntryAt(tree', bi) = EntryAt(tree, bi)
              /\ LET dep == EntryAt(tree, bi)
                 IN \A k \in 1..Len(NewRecords) :
                       ~(/\ NewRecords[k].type = "dependency_migration"
                         /\ NewRecords[k].old = Key(dep.groupId.text, dep.artifactId.text))

\* C18 as stated: the step of Phase C modifies no entry inside a
\* dependencyManagement section, the section of a profile included, and
\* appends no dependency_migration record for such an entry.
CX_C18_ManagedEntriesNotMigrated == [][C18_LeavesManagedEntries]_vars

-----------------------------------------------------------------------------
(* C19 *)

\* a maven-compiler-plugin configuration whose source and target are both
\* the legacy language level
C19_BothLegacy(pl) ==
    /\ pl.artifactId = <<"maven-compiler-plugin">>
    /\ pl.hasConfig
    /\ pl.source.p /\ pl.source.text \in {<<"1.8">>, <<"8">>}
    /\ pl.target.p /\ pl.target.text \in {<<"1.8">>, <<"8">>}

C19_FiresOnLegacyPairOnly ==
    pc = "F" =>
        /\ \A i \in 1..Len(tree.plugins) :
              ~C19_BothLegacy(tree.plugins[i]) => tree'.plugins[i] = tree.plugins[i]
        /\ Cardinality({k \in 1..Len(NewRecords) : NewRecords[k].type = "plugin_update"})
              = Cardinality({i \in 1..Len(tree.plugins) : C19_BothLegacy(tree.plugins[i])})

\* C19 as stated: the step of Phase F changes a plugin, and records a
\* plugin_update for it, only when source and target are both legacy; a
\* configuration with only one of them legacy is left as it was.
CX_C19_FiresOnlyOnLegacyPair == [][C19_FiresOnLegacyPairOnly]_vars

\* a maven-compiler-plugin configuration with a source and a target of which
\* at least one is the legacy language level
C19_OneLegacy(pl) ==
    /\ pl.artifactId = <<"maven-compiler-plugin">>
    /\ pl.hasConfig
    /\ pl.source.p /\ pl.target.p
    /\ \/ pl.source.text \in {<<"1.8">>, <<"8">>}
       \/ pl.target.text \in {<<"1.8">>, <<"8">>}

C19_FiresOnOneLegacy ==
    pc = "F" =>
        /\ \A i \in 1..Len(tree.plugins) :
              (tree'.plugins[i] /= tree.plugins[i]) <=> C19_OneLegacy(tree.plugins[i])
        /\ Cardinality({k \in 1..Len(NewRecords) : NewRecords[k].type = "plugin_update"})
              = Cardinality({i \in 1..Len(tree.plugins) : C19_OneLegacy(tree.plugins[i])})

\* C19, amended: the step of Phase F changes a compiler-plugin entry, and
\* records one plugin_update for it, exactly when its configuration has a
\* source and a target of which at least one is the legacy language level;
\* a configuration in which neither is legacy is left as it was.
T_C19_FiresWhenEitherIsLegacy == [][C19_FiresOnOneLegacy]_vars

\* Phase F has rewritten a plugin with source 17 and target 1.8 and has left
\* a plugin with source 17 and target 17 alone
W_C19_MixedLevelsRewritten ==
    /\ pc = "finish"
    /\ orig.wf
    /\ Len(tree.plugins) = 2
    /\ \E i, j \in 1..2 :
          /\ orig.doc.plugins[i].source.text = <<"17">>
          /\ orig.doc.plugins[i].target.text = <<"1.8">>
          /\ ~tree.plugins[i].source.p /\ ~tree.plugins[i].target.p
          /\ orig.doc.plugins[j].target.text = <<"17">>
          /\ tree.plugins[j] = orig.doc.plugins[j]
    /\ Len(replacement_details) = 1

-----------------------------------------------------------------------------
(* C20 *)

\* the positions at which 'javax.' begins in a text
C20_Occurrences(t) == {k \in 1..Len(t) : k + 1 <= Len(t) /\ t[k] = "javax" /\ t[k + 1] = "."}

\* the text with 'jakarta.' in place of 'javax.' at these positions
C20_ReplacedAt(t, at) == [k \in 1..Len(t) |-> IF k \in at THEN "jakarta" ELSE t[k]]

C20_First(t) == {k \in C20_Occurrences(t) : \A j \in C20_Occurrences(t) : k <= j}

\* the properties to which only the replacement of the prefix applies
C20_Plain(prop) == prop.text /= None /\ ~Contains(Lower(prop.name), <<"version">>)

C20_ReplacesFirst ==
    (pc = "E" /\ tree.props.p) =>
        \A i \in 1..Len(tree.props.items) :
           LET prop == tree.props.items[i]
           IN C20_Plain(prop) =>
                 tree'.props.items[i].text = C20_ReplacedAt(prop.text, C20_First(prop.text))

\* C20 as stated: the step of Phase E replaces the first 'javax.' of a
\* property's text by 'jakarta.' and leaves the later ones as they were.
CX_C20_FirstOccurrenceOnly == [][C20_ReplacesFirst]_vars

C20_ReplacesAll ==
    (pc = "E" /\ tree.props.p) =>
        \A i \in 1..Len(tree.props.items) :
           LET prop == tree.props.items[i]
           IN C20_Plain(prop) =>
                 tree'.props.items[i].text = C20_ReplacedAt(prop.text, C20_Occurrences(prop.text))

\* C20, amended: the step of Phase E replaces every 'javax.' of a property's
\* text by 'jakarta.' (in a property whose tag name does not contain
\* 'version', which the version rules do not overwrite).
T_C20_EveryOccurrence == [][C20_ReplacesAll]_vars

\* after Phase E: a property that had 'javax.' twice has it no more
W_C20_BothOccurrencesReplaced ==
    /\ pc = "F"
    /\ orig.wf
    /\ \E i \in 1..Len(tree.props.items) :
          /\ C20_Plain(orig.doc.props.items[i])
          /\ Cardinality(C20_Occurrences(orig.doc.props.items[i].text)) = 2
          /\ C20_Occurrences(tree.props.items[i].text) = {}
          /\ Contains(tree.props.items[i].text, <<"jakarta", ".">>)

-----------------------------------------------------------------------------
(* C21 *)

\* the text Phase E has after its replacement of 'javax.', on which the
\* version rules work
C21_AfterPrefix(prop) == C20_ReplacedAt(prop.text, C20_Occurrences(prop.text))

\* the step of Phase E gives property i a text the prefix replacement does
\* not explain
C21_Overwritten(i) ==
    /\ tree'.props.items[i].text /= C21_AfterPrefix(tree.props.items[i])
    /\ tree'.props.items[i].text \in {<<"8.0.0.GA">>, <<"6.2.0.Final">>}

\* the tag name contains 'version' and one of the two named libraries, and
\* the text begins with that library's legacy major version
C21_LegacyLibrary(prop) ==
    LET n == Lower(prop.name)
        t == C21_AfterPrefix(prop)
    IN /\ Contains(n, <<"version">>)
       /\ \/ Contains(n, <<"hibernate">>) /\ Len(t) >= 1 /\ t[1] = "5."
          \/ Contains(n, <<"resteasy">>) /\ Len(t) >= 1 /\ t[1] \in {"3.", "4."}

\* the tag name contains 'version' and 'eap'
C21_PlatformVersion(prop) ==
    Contains(Lower(prop.name), <<"version">>) /\ Contains(Lower(prop.name), <<"eap">>)

\* '7.4' occurs somewhere in the text
C21_Has74(t) == \E k \in 1..Len(t) : t[k] = "7.4"

C21_OverwritesOnExactMatch ==
    (pc = "E" /\ tree.props.p) =>
        \A i \in 1..Len(tree.props.items) :
           LET prop == tree.props.items[i]
           IN /\ C21_Overwritten(i) =>
                    \/ C21_PlatformVersion(prop) /\ C21_AfterPrefix(prop) = <<"7.4">>
                    \/ C21_LegacyLibrary(prop)
              /\ (C21_Has74(prop.text) /\ prop.text /= <<"7.4">>) => ~C21_Overwritten(i)

\* C21 as stated: the step of Phase E overwrites a property with a target
\* version literal only if its tag name contains 'version' and its text
\* equals 7.4 (platform) or begins with 5. (hibernate) or with 3. or 4.
\* (resteasy); a text that only contains 7.4 is not overwritten.
CX_C21_ExactPlatformVersion == [][C21_OverwritesOnExactMatch]_vars

C21_OverwritesOnSubstring ==
    (pc = "E" /\ tree.props.p) =>
        \A i \in 1..Len(tree.props.items) :
           LET prop == tree.props.items[i]
           IN /\ C21_Overwritten(i) =>
                    \/ C21_PlatformVersion(prop) /\ C21_Has74(C21_AfterPrefix(prop))
                    \/ C21_LegacyLibrary(prop)
              /\ (C21_PlatformVersion(prop) /\ C21_Has74(prop.text))
                    => tree'.props.items[i].text = <<"8.0.0.GA">>

\* C21, amended: the step of Phase E overwrites a property with a target
\* version literal only if its tag name contains 'version' and its text
\* contains 7.4 (platform) or begins with 5. (hibernate) or with 3. or 4.
\* (resteasy); a platform version text that only contains 7.4 is overwritten
\* with 8.0.0.GA.
T_C21_SubstringPlatformVersion == [][C21_OverwritesOnSubstring]_vars

\* after Phase E: a platform version property whose text was 7.4.0.GA is
\* 8.0.0.GA, beside a property Phase E left alone
W_C21_LongerVersionOverwritten ==
    /\ pc = "F"
    /\ orig.wf
    /\ Len(tree.props.items) = 2
    /\ \E i, j \in 1..2 :
          /\ C21_PlatformVersion(orig.doc.props.items[i])
          /\ orig.doc.props.items[i].text = <<"7.4", ".0.GA">>
          /\ tree.props.items[i].text = <<"8.0.0.GA">>
          /\ tree.props.items[j] = orig.doc.props.items[j]
    /\ Len(replacement_details) = 1

-----------------------------------------------------------------------------
(* C22 *)

\* every BOM of the input for which Phase A had a rule with a new coordinate
\* is in the set under its new coordinate
C22_ReflectsPhaseA(boms) ==
    \A bi \in Places(orig.doc) :
       C14_BomWithFullRule(bi) =>
          LET dep == EntryAt(orig.doc, bi)
          IN \E k \in 1..Len(boms) :
                boms[k].key = rules[Key(dep.groupId.text, dep.artifactId.text)].new_artifact

C22_ExtractsOnceAfterA ==
    /\ pc = "B" =>
          /\ Has("A") /\ ~Has("B") /\ ~Has("C") /\ ~Has("D")
          /\ tree' = tree
          /\ replacement_details' = replacement_details
          /\ C22_ReflectsPhaseA(active_boms')
    /\ pc \in {"C", "D", "E", "F"} => (Has("B") /\ active_boms' = active_boms)

\* C22: the step that extracts the active BOMs comes after Phase A and
\* before Phases C and D, once per file; it leaves the tree and the change
\* records as they are; the set holds the coordinates Phase A wrote, and no
\* later phase of the file changes it.
T_C22_BomsExtractedOnceAfterA == [][C22_ExtractsOnceAfterA]_vars

\* Phase D has run with a set that holds the BOM under the coordinate Phase A
\* gave it
W_C22_PhaseDSawRewrittenBom ==
    /\ pc = "E"
    /\ orig.wf
    /\ \E bi \in Places(orig.doc) : C14_BomWithFullRule(bi)
    /\ \E k \in 1..Len(active_boms) : active_boms[k].key = K_EapBomNew
    /\ \A k \in 1..Len(active_boms) : active_boms[k].key /= K_EapBom

-----------------------------------------------------------------------------
(* C23 *)

\* the element is absent or has no text
C23_Missing(el) == ~el.p \/ el.text = <<>>

\* the file has a managed entry that qualifies as a BOM and has no group or
\* no artifact identifier
C23_HasBomWithoutCoordinate ==
    /\ orig.wf
    /\ \E e \in EntriesIn(orig.doc) :
          /\ e.managed /\ QualifiesAsBom(e.dep)
          /\ C23_Missing(e.dep.groupId) \/ C23_Missing(e.dep.artifactId)

\* C23 as stated: a BOM entry with a missing group or artifact identifier is
\* not in the active BOM set after the extraction, and the file that has it
\* is migrated without a file-level error.
CX_C23_BomWithoutCoordinateSkipped ==
    /\ pc = "C" =>
          \A k \in 1..Len(active_boms) :
             active_boms[k].group_id /= <<>> /\ active_boms[k].artifact_id /= <<>>
    /\ (Returned /\ C23_HasBomWithoutCoordinate) => result.errors = <<>>

-----------------------------------------------------------------------------
(* C24 *)

\* the phase that makes records of this type: 1 for Phase A, 3 for C, 4 for
\* D, 5 for E, 6 for F
C24_PhaseOf(type) ==
    IF type \in {"bom_update", "dependency_management_update"} THEN 1
    ELSE IF type = "dependency_migration" THEN 3
    ELSE IF type = "version_removed" THEN 4
    ELSE IF type = "property_update" THEN 5
    ELSE 6

C24_OrderedByPhase(details) ==
    \A j, k \in 1..Len(details) :
       j < k => C24_PhaseOf(details[j].type) <= C24_PhaseOf(details[k].type)

C24_AppendsInPhaseOrder ==
    pc /= "idle" =>
        /\ Len(replacement_details') >= Len(replacement_details)
        /\ SubSeq(replacement_details', 1, Len(replacement_details)) = replacement_details
        /\ C24_OrderedByPhase(replacement_details')
        /\ (pc' = "done" /\ result'.has_details) => result'.details = replacement_details'

\* C24: within a file every step leaves the records appended so far where
\* they are and only adds records behind them; the records of Phase A come
\* before those of Phase C, then D, E and F; the result's list is that
\* sequence, duplicates included.
T_C24_RecordsAppendOnlyInPhaseOrder == [][C24_AppendsInPhaseOrder]_vars

\* a file has been migrated with records of three phases
W_C24_RecordsOfThreePhases ==
    /\ Returned
    /\ result.has_details
    /\ Len(result.details) = 3
    /\ result.details[1].type = "bom_update"
    /\ result.details[2].type = "version_removed"
    /\ result.details[3].type = "plugin_update"

-----------------------------------------------------------------------------
(* C25 *)

C25_RecordsMeanMutation ==
    pc \in {"A", "C", "D", "E", "F"} =>
        /\ NewRecords /= <<>> => tree' /= tree
        /\ pc = "A" =>
              \A k \in 1..Len(NewRecords) :
                 (/\ NewRecords[k].type = "dependency_management_update"
                  /\ NewRecords[k].old \in DOMAIN rules
                  /\ ~rules[NewRecords[k].old].has_new_artifact)
                 => \E bi \in Places(tree) : EntryAt(tree', bi) /= EntryAt(tree, bi)

\* C25 as stated: a step of a phase that appends records changes the tree,
\* and Phase A appends no record for a managed entry whose rule has only a
\* new version when no entry is changed.
CX_C25_EveryRecordIsAMutation == [][C25_RecordsMeanMutation]_vars

====
